---- MODULE Spec2Model ----
(***************************************************************************)
(* The RGB25 interface schema (rgb25()) and its typed wrapper Rgb25 of     *)
(* src/interface/rgb25.rs.                                                 *)
(*                                                                         *)
(* Spec     : a ContractIface is handed to Rgb25::from, the accessors are  *)
(*            called on the wrapper, and the wrapped state is written      *)
(*            through the derived DerefMut.                                *)
(* OpsSpec  : the operations the schema declares (genesis, transitions)    *)
(*            applied under the occurrence ranges the schema gives them.   *)
(* FairOps  : OpsSpec with every declared operation scheduled fairly.      *)
(***************************************************************************)
EXTENDS Integers, Sequences, FiniteSets, TLC

VARIABLES
    arg,        \* <<c>>: the ContractIface about to be passed to Rgb25::from; <<>> once moved
    wrapper,    \* <<c>>: the Rgb25 newtype and the ContractIface it holds; <<>>: no wrapper
    ret,        \* outcome of the last call: [op, outcome, val]
    contract,   \* the contract as the schema's operations build it: [issued, global, owned]
    schema      \* the Iface value rgb25() returned

vars == <<arg, wrapper, ret, contract, schema>>

----------------------------------------------------------------------------
(* Bounds *)

\* longest value list bound to a global that may occur more than once
MaxOcc == 2
\* most unspent assignments of one kind the operations keep
MaxOwned == 7

----------------------------------------------------------------------------
(* Schema: rgb25() *)

SUPPLY_MISMATCH == 1
NON_EQUAL_AMOUNTS == 2
INVALID_PROOF == 3
INSUFFICIENT_RESERVES == 4
INSUFFICIENT_COVERAGE == 5

\* tiny_bmap! { k => v, ... }: the pairs inserted in order into an ordered map;
\* a key inserted twice keeps the later value.
tiny_bmap(pairs) ==
    [k \in {pairs[i][1] : i \in DOMAIN pairs} |->
        LET last == CHOOSE i \in DOMAIN pairs :
                        /\ pairs[i][1] = k
                        /\ \A j \in DOMAIN pairs : pairs[j][1] = k => j <= i
        IN  pairs[last][2]]

\* tiny_bset! { a, b, ... }
tiny_bset(elems) == {elems[i] : i \in DOMAIN elems}

\* none!(): the empty map
none == tiny_bmap(<<>>)

\* GlobalIface::required / optional / none_or_many
GlobalIface_required(sem)     == [sem |-> sem, required |-> TRUE,  multiple |-> FALSE]
GlobalIface_optional(sem)     == [sem |-> sem, required |-> FALSE, multiple |-> FALSE]
GlobalIface_none_or_many(sem) == [sem |-> sem, required |-> FALSE, multiple |-> TRUE]

\* AssignIface::private / public
AssignIface_private(kind, req) == [owned |-> kind, public |-> FALSE, req |-> req]
AssignIface_public(kind, req)  == [owned |-> kind, public |-> TRUE,  req |-> req]

\* Variant::named(tag, name)
Variant_named(tag, name) == [tag |-> tag, name |-> name]

rgb25_global_state ==
    tiny_bmap(<<
        <<"name",         GlobalIface_required("RGBContract.Name")>>,
        <<"details",      GlobalIface_optional("RGBContract.Details")>>,
        <<"precision",    GlobalIface_required("RGBContract.Precision")>>,
        <<"terms",        GlobalIface_required("RGBContract.AssetTerms")>>,
        <<"issuedSupply", GlobalIface_required("RGBContract.Amount")>>,
        <<"burnedSupply", GlobalIface_none_or_many("RGBContract.Amount")>>
    >>)

\* the assignments map with `burnRight` left out
rgb25_assignments_owner_only ==
    tiny_bmap(<<
        <<"assetOwner", AssignIface_private("Amount", "OneOrMore")>>
    >>)

rgb25_assignments ==
    tiny_bmap(<<
        <<"assetOwner", AssignIface_private("Amount", "OneOrMore")>>,
        <<"burnRight",  AssignIface_public("Rights", "NoneOrMore")>>
    >>)

rgb25_genesis ==
    [ metadata    |-> <<"RGBContract.IssueMeta">>,
      globals     |-> tiny_bmap(<<
                          <<"name",         "Once">>,
                          <<"details",      "NoneOrOnce">>,
                          <<"precision",    "Once">>,
                          <<"terms",        "Once">>,
                          <<"issuedSupply", "Once">>
                      >>),
      assignments |-> tiny_bmap(<< <<"assetOwner", "OnceOrMore">> >>),
      valencies   |-> {},
      errors      |-> tiny_bset(<<SUPPLY_MISMATCH, INVALID_PROOF, INSUFFICIENT_RESERVES>>) ]

rgb25_transitions ==
    tiny_bmap(<<
        <<"transfer",
          [ optional    |-> FALSE,
            metadata    |-> <<>>,
            globals     |-> none,
            inputs      |-> tiny_bmap(<< <<"assetOwner", "OnceOrMore">> >>),
            assignments |-> tiny_bmap(<< <<"assetOwner", "OnceOrMore">> >>),
            valencies   |-> {},
            errors      |-> tiny_bset(<<NON_EQUAL_AMOUNTS>>),
            default_assignment |-> <<"assetOwner">> ]>>,
        <<"burn",
          [ optional    |-> TRUE,
            metadata    |-> <<"RGBContract.BurnMeta">>,
            globals     |-> tiny_bmap(<< <<"burnedSupply", "Once">> >>),
            inputs      |-> tiny_bmap(<< <<"burnRight", "Once">> >>),
            assignments |-> tiny_bmap(<< <<"burnRight", "NoneOrOnce">> >>),
            valencies   |-> {},
            errors      |-> tiny_bset(<<SUPPLY_MISMATCH, INVALID_PROOF,
                                        INSUFFICIENT_COVERAGE>>),
            default_assignment |-> <<>> ]>>
    >>)

\* the errors map with INSUFFICIENT_COVERAGE left out
rgb25_errors_no_coverage ==
    tiny_bmap(<<
        <<Variant_named(SUPPLY_MISMATCH, "supplyMismatch"),
          "supply specified as a global parameter doesn't match the issued supply allocated to the asset owners">>,
        <<Variant_named(NON_EQUAL_AMOUNTS, "nonEqualAmounts"),
          "the sum of spent assets doesn't equal to the sum of assets in outputs">>,
        <<Variant_named(INVALID_PROOF, "invalidProof"),
          "the provided proof is invalid">>,
        <<Variant_named(INSUFFICIENT_RESERVES, "insufficientReserves"),
          "reserve is insufficient to cover the issued assets">>
    >>)

rgb25_errors ==
    tiny_bmap(<<
        <<Variant_named(SUPPLY_MISMATCH, "supplyMismatch"),
          "supply specified as a global parameter doesn't match the issued supply allocated to the asset owners">>,
        <<Variant_named(NON_EQUAL_AMOUNTS, "nonEqualAmounts"),
          "the sum of spent assets doesn't equal to the sum of assets in outputs">>,
        <<Variant_named(INVALID_PROOF, "invalidProof"),
          "the provided proof is invalid">>,
        <<Variant_named(INSUFFICIENT_RESERVES, "insufficientReserves"),
          "reserve is insufficient to cover the issued assets">>,
        <<Variant_named(INSUFFICIENT_COVERAGE, "insufficientCoverage"),
          "the claimed amount of burned assets is not covered by the assets in the operation inputs">>
    >>)

rgb25 ==
    [ version           |-> "V1",
      name              |-> "RGB25",
      global_state      |-> rgb25_global_state,
      assignments       |-> rgb25_assignments,
      valencies         |-> {},
      genesis           |-> rgb25_genesis,
      transitions       |-> rgb25_transitions,
      extensions        |-> none,
      errors            |-> rgb25_errors,
      default_operation |-> <<"transfer">> ]

----------------------------------------------------------------------------
(* Occurrence model *)

\* Occurrences -> inclusive count range [min, max]; unbounded: no maximum
OccRange(o) ==
    CASE o = "Once"       -> [min |-> 1, max |-> 1, unbounded |-> FALSE]
      [] o = "NoneOrOnce" -> [min |-> 0, max |-> 1, unbounded |-> FALSE]
      [] o = "OnceOrMore" -> [min |-> 1, max |-> 1, unbounded |-> TRUE]
      [] o = "NoneOrMore" -> [min |-> 0, max |-> 0, unbounded |-> TRUE]

\* a bound count n is valid iff min <= n <= max
InRange(n, o) ==
    LET r == OccRange(o)
    IN  r.min <= n /\ (r.unbounded \/ n <= r.max)

----------------------------------------------------------------------------
(* Contract state: ContractIface *)

\* Rgb25::IFACE_ID, and the identity of some other interface
IFACE_ID == "5d368e75a82e15813c12396b0e2bc08be966823f9e10188df1d6fb249b2828a5"
OTHER_IFACE_ID == "another interface id"
IfaceIds == {IFACE_ID, OTHER_IFACE_ID}

\* StrictVal: the untyped values the state store keeps
StrictStr(s) == [str |-> s]
StrictNum(n) == [num |-> n]

\* the values each global takes in the states explored
GlobalValues(f) ==
    CASE f = "name"         -> {StrictStr("Asset A"), StrictStr("Asset B")}
      [] f = "details"      -> {StrictStr("some details")}
      [] f = "precision"    -> {StrictNum(8)}
      [] f = "terms"        -> {StrictStr("terms X"), StrictStr("terms Y")}
      [] f = "issuedSupply" -> {StrictNum(3), StrictNum(5)}
      [] f = "burnedSupply" -> {StrictNum(3), StrictNum(5)}

GlobalNames == DOMAIN rgb25.global_state

RECURSIVE SeqsUpTo(_, _)
SeqsUpTo(S, n) ==
    IF n = 0 THEN {<<>>}
    ELSE LET shorter == SeqsUpTo(S, n - 1)
         IN  shorter \cup {Append(s, x) : s \in {t \in shorter : Len(t) = n - 1}, x \in S}

\* the longest value list the states explored bind to a global: what the
\* schema's occurrences allow, MaxOcc where they allow any number
MaxBound(f) == IF rgb25.global_state[f].multiple THEN MaxOcc ELSE 1

\* Result<SmallVec<StrictVal>, ContractError>
Ok(vals) == [ok |-> TRUE, vals |-> vals]
Err == [ok |-> FALSE, vals |-> <<>>]

\* what the state provider answers for one global: an error when the interface
\* implementation does not know the field, else the values bound to it
Bindings(f) == {Err} \cup {Ok(s) : s \in SeqsUpTo(GlobalValues(f), MaxBound(f))}

ContractIfaces ==
    { [iface_id |-> i,
       global   |-> [name |-> n, details |-> d, precision |-> p, terms |-> t,
                     issuedSupply |-> s, burnedSupply |-> b]] :
        i \in IfaceIds,
        n \in Bindings("name"), d \in Bindings("details"),
        p \in Bindings("precision"), t \in Bindings("terms"),
        s \in Bindings("issuedSupply"), b \in Bindings("burnedSupply") }

\* ContractIface::global(name)
global(c, name) ==
    IF name \in DOMAIN c.global THEN c.global[name] ELSE Err

\* a state the validator produced for this schema: it carries the schema's
\* identity, every required global is known and every known global holds a
\* number of values its declared occurrences allow
GlobalOcc(f) ==
    IF rgb25.global_state[f].multiple THEN "NoneOrMore"
    ELSE IF rgb25.global_state[f].required THEN "Once" ELSE "NoneOrOnce"

Conformant(c) ==
    /\ c.iface_id = IFACE_ID
    /\ \A f \in GlobalNames :
        /\ rgb25.global_state[f].required => c.global[f].ok
        /\ c.global[f].ok =>
            InRange(Len(c.global[f].vals),
                    IF f \in DOMAIN rgb25.genesis.globals
                    THEN rgb25.genesis.globals[f] ELSE GlobalOcc(f))

----------------------------------------------------------------------------
(* Value codec and amounts *)

\* Name / Details / AssetTerms ::from_strict_val_unchecked: unwrap the string
string_from_strict_val_unchecked(v) == v.str

\* Precision / Amount ::from_strict_val_unchecked: unwrap the number
number_from_strict_val_unchecked(v) == v.num

\* Amount's Sum: fold from zero with the amount type's addition
RECURSIVE amount_sum(_)
amount_sum(vals) ==
    IF vals = <<>> THEN 0
    ELSE number_from_strict_val_unchecked(Head(vals)) + amount_sum(Tail(vals))

----------------------------------------------------------------------------
(* Calls and their outcomes *)

\* a call returned val / a call panicked
Returned(op, val) == [op |-> op, outcome |-> "ok", val |-> <<val>>]
Panicked(op) == [op |-> op, outcome |-> "panic", val |-> <<>>]
NoCall == [op |-> "none", outcome |-> "ok", val |-> <<>>]

\* Option
None == <<>>
Some(x) == <<x>>

\* the global each accessor reads
AccessorGlobal ==
    [ name                |-> "name",
      details             |-> "details",
      precision           |-> "precision",
      total_issued_supply |-> "issuedSupply",
      total_burned_supply |-> "burnedSupply",
      contract_data       |-> "data" ]

\* impl From<ContractIface> for Rgb25, without its identity check
from_unchecked(iface) == [wrapper |-> <<iface>>, ret |-> Returned("from", "Rgb25")]

\* impl From<ContractIface> for Rgb25
from(iface) ==
    IF iface.iface_id # IFACE_ID
    THEN [wrapper |-> <<>>, ret |-> Panicked("from")]
    ELSE [wrapper |-> <<iface>>, ret |-> Returned("from", "Rgb25")]

\* Rgb25::name answering the empty name instead of failing
name_or_default(self) ==
    LET r == global(self, AccessorGlobal.name)
    IN  IF ~r.ok \/ Len(r.vals) = 0 THEN Returned("name", "")
        ELSE Returned("name", string_from_strict_val_unchecked(r.vals[1]))

\* Rgb25::name
name(self) ==
    LET r == global(self, AccessorGlobal.name)
    IN  IF ~r.ok THEN Panicked("name")                 \* expect
        ELSE IF Len(r.vals) = 0 THEN Panicked("name")  \* [0] out of bounds
        ELSE Returned("name", string_from_strict_val_unchecked(r.vals[1]))

\* Rgb25::details
details(self) ==
    LET r == global(self, AccessorGlobal.details)
    IN  IF ~r.ok THEN Panicked("details")              \* expect
        ELSE IF Len(r.vals) = 0 THEN Returned("details", None)
        ELSE Returned("details", Some(string_from_strict_val_unchecked(r.vals[1])))

\* Rgb25::precision
precision(self) ==
    LET r == global(self, AccessorGlobal.precision)
    IN  IF ~r.ok THEN Panicked("precision")
        ELSE IF Len(r.vals) = 0 THEN Panicked("precision")
        ELSE Returned("precision", number_from_strict_val_unchecked(r.vals[1]))

\* Rgb25::total_issued_supply
total_issued_supply(self) ==
    LET r == global(self, AccessorGlobal.total_issued_supply)
    IN  IF ~r.ok THEN Panicked("total_issued_supply")
        ELSE Returned("total_issued_supply", amount_sum(r.vals))

\* Rgb25::total_burned_supply with expect in place of unwrap_or_default
total_burned_supply_expect(self) ==
    LET r == global(self, AccessorGlobal.total_burned_supply)
    IN  IF ~r.ok THEN Panicked("total_burned_supply")
        ELSE Returned("total_burned_supply", amount_sum(r.vals))

\* Rgb25::total_burned_supply
total_burned_supply(self) ==
    LET r == global(self, AccessorGlobal.total_burned_supply)
        vals == IF r.ok THEN r.vals ELSE <<>>          \* unwrap_or_default
    IN  Returned("total_burned_supply", amount_sum(vals))

\* Rgb25::contract_data
contract_data(self) ==
    LET r == global(self, AccessorGlobal.contract_data)
    IN  IF ~r.ok THEN Panicked("contract_data")
        ELSE IF Len(r.vals) = 0 THEN Panicked("contract_data")
        ELSE Returned("contract_data", string_from_strict_val_unchecked(r.vals[1]))

----------------------------------------------------------------------------
(* Spec: the wrapper *)

Init ==
    /\ arg \in {<<c>> : c \in ContractIfaces}
    /\ wrapper = <<>>
    /\ ret = NoCall
    /\ schema = rgb25
    /\ contract = [issued |-> FALSE,
                   global |-> [f \in GlobalNames |-> <<>>],
                   owned  |-> [a \in DOMAIN rgb25.assignments |-> 0]]

\* Rgb25::from(iface): the argument is moved in; a panic leaves no wrapper
From ==
    /\ arg # <<>>
    /\ LET r == from(arg[1])
       IN  /\ wrapper' = r.wrapper
           /\ ret' = r.ret
    /\ arg' = <<>>
    /\ UNCHANGED <<contract, schema>>

\* a wrapper exists and no call on it has panicked
Alive == wrapper # <<>> /\ ret.outcome # "panic"

CallName ==
    /\ Alive
    /\ ret' = name(wrapper[1])
    /\ UNCHANGED <<arg, wrapper, contract, schema>>

CallDetails ==
    /\ Alive
    /\ ret' = details(wrapper[1])
    /\ UNCHANGED <<arg, wrapper, contract, schema>>

CallPrecision ==
    /\ Alive
    /\ ret' = precision(wrapper[1])
    /\ UNCHANGED <<arg, wrapper, contract, schema>>

CallTotalIssuedSupply ==
    /\ Alive
    /\ ret' = total_issued_supply(wrapper[1])
    /\ UNCHANGED <<arg, wrapper, contract, schema>>

CallTotalBurnedSupply ==
    /\ Alive
    /\ ret' = total_burned_supply(wrapper[1])
    /\ UNCHANGED <<arg, wrapper, contract, schema>>

CallContractData ==
    /\ Alive
    /\ ret' = contract_data(wrapper[1])
    /\ UNCHANGED <<arg, wrapper, contract, schema>>

\* what one write through a &mut ContractIface can leave behind: another
\* identity, or another answer of the state for one global
Writes(c) ==
    {[c EXCEPT !.iface_id = i] : i \in IfaceIds}
        \cup UNION {{[c EXCEPT !.global[f] = b] : b \in Bindings(f)} : f \in GlobalNames}

\* #[wrapper_mut(DerefMut)]: deref_mut() / as_inner_mut() hand out the wrapped
\* ContractIface mutably and the caller writes to it
DerefMutWrite ==
    /\ Alive
    /\ \E c \in Writes(wrapper[1]) :
        /\ c # wrapper[1]
        /\ wrapper' = <<c>>
    /\ ret' = Returned("deref_mut", "unit")
    /\ UNCHANGED <<arg, contract, schema>>

Next ==
    \/ From
    \/ CallName
    \/ CallDetails
    \/ CallPrecision
    \/ CallTotalIssuedSupply
    \/ CallTotalBurnedSupply
    \/ CallContractData
    \/ DerefMutWrite

Spec == Init /\ [][Next]_vars

----------------------------------------------------------------------------
(* OpsSpec: the operations the schema declares *)

AssignNames == DOMAIN rgb25.assignments

\* the value lists an operation may bind to global f, given the globals it declares
Produced(globals, f) ==
    IF f \in DOMAIN globals
    THEN {s \in SeqsUpTo(GlobalValues(f), MaxBound(f)) : InRange(Len(s), globals[f])}
    ELSE {<<>>}

\* the numbers of assignments of each kind an operation may consume or create,
\* given the occurrences it declares; a kind it does not declare is untouched
Counts(occ) ==
    {n \in [AssignNames -> 0..MaxOwned] :
        \A a \in AssignNames :
            IF a \in DOMAIN occ THEN InRange(n[a], occ[a]) ELSE n[a] = 0}

OpsInit ==
    /\ arg = <<>>
    /\ wrapper = <<>>
    /\ ret = NoCall
    /\ schema = rgb25
    /\ contract = [issued |-> FALSE,
                   global |-> [f \in GlobalNames |-> <<>>],
                   owned  |-> [a \in AssignNames |-> 0]]

\* the issuance: binds the globals and creates the assignments rgb25().genesis declares
Genesis ==
    /\ ~contract.issued
    /\ \E n \in Produced(rgb25.genesis.globals, "name"),
          d \in Produced(rgb25.genesis.globals, "details"),
          p \in Produced(rgb25.genesis.globals, "precision"),
          t \in Produced(rgb25.genesis.globals, "terms"),
          s \in Produced(rgb25.genesis.globals, "issuedSupply"),
          b \in Produced(rgb25.genesis.globals, "burnedSupply"),
          made \in Counts(rgb25.genesis.assignments) :
        contract' = [issued |-> TRUE,
                     global |-> [name |-> n, details |-> d, precision |-> p, terms |-> t,
                                 issuedSupply |-> s, burnedSupply |-> b],
                     owned  |-> made]
    /\ UNCHANGED <<arg, wrapper, ret, schema>>

\* the inputs transition t must consume exist
InputsAvailable(t) ==
    /\ contract.issued
    /\ \A a \in DOMAIN rgb25.transitions[t].inputs :
        OccRange(rgb25.transitions[t].inputs[a]).min <= contract.owned[a]

\* transition t of rgb25().transitions: consumes its inputs, creates its
\* assignments and appends the globals it declares
Transition(t) ==
    LET T == rgb25.transitions[t]
    IN  /\ contract.issued
        /\ \E used \in Counts(T.inputs), made \in Counts(T.assignments),
              n \in Produced(T.globals, "name"),
              d \in Produced(T.globals, "details"),
              p \in Produced(T.globals, "precision"),
              x \in Produced(T.globals, "terms"),
              s \in Produced(T.globals, "issuedSupply"),
              b \in Produced(T.globals, "burnedSupply") :
            LET add == [name |-> n, details |-> d, precision |-> p, terms |-> x,
                        issuedSupply |-> s, burnedSupply |-> b]
            IN  /\ \A a \in AssignNames : used[a] <= contract.owned[a]
                /\ \A a \in AssignNames : contract.owned[a] - used[a] + made[a] <= MaxOwned
                /\ \A f \in GlobalNames : Len(contract.global[f]) + Len(add[f]) <= MaxBound(f)
                /\ contract' =
                    [contract EXCEPT
                        !.global = [f \in GlobalNames |-> contract.global[f] \o add[f]],
                        !.owned  = [a \in AssignNames |-> contract.owned[a] - used[a] + made[a]]]
        /\ UNCHANGED <<arg, wrapper, ret, schema>>

OpsNext ==
    \/ Genesis
    \/ \E t \in DOMAIN rgb25.transitions : Transition(t)

OpsSpec == OpsInit /\ [][OpsNext]_vars

FairOps ==
    /\ OpsSpec
    /\ WF_vars(Genesis)
    /\ \A t \in DOMAIN rgb25.transitions : SF_vars(Transition(t))

----------------------------------------------------------------------------
(* Claims *)

\* C1: Rgb25::from succeeds iff the state's carried interface identity equals
\* Rgb25::IFACE_ID: on a mismatch it panics and no wrapper exists afterwards; on a
\* match the wrapper holds exactly the state it was given.
C1_FromChecksIdentity ==
    [][ (arg # <<>> /\ arg' = <<>>) =>
            IF arg[1].iface_id = IFACE_ID
            THEN wrapper' = arg /\ ret' = Returned("from", "Rgb25")
            ELSE wrapper' = <<>> /\ ret' = Panicked("from") ]_vars

C1_Witness ==
    /\ ret = Returned("from", "Rgb25")
    /\ wrapper # <<>>
    /\ arg = <<>>

\* C2: once a wrapper exists, no operation its public interface allows changes
\* the wrapped state, and the wrapped identity stays Rgb25::IFACE_ID.
C2_WrapperImmutable ==
    [][ wrapper # <<>> =>
            /\ wrapper' = wrapper
            /\ wrapper'[1].iface_id = IFACE_ID ]_vars

\* the operations of the schema: its genesis and each of its transitions
SchemaErrorSets ==
    {schema.genesis.errors} \cup {schema.transitions[t].errors : t \in DOMAIN schema.transitions}

\* C3: every error code the genesis or a transition lists is a key of the schema's
\* errors map, and the codes and the names of that map are pairwise distinct.
C3_ErrorClosure ==
    /\ \A errs \in SchemaErrorSets :
        \A code \in errs : \E v \in DOMAIN schema.errors : v.tag = code
    /\ \A v, w \in DOMAIN schema.errors :
        v # w => v.tag # w.tag /\ v.name # w.name

C3_Witness ==
    /\ INSUFFICIENT_COVERAGE \in schema.transitions["burn"].errors
    /\ NON_EQUAL_AMOUNTS \in schema.transitions["transfer"].errors
    /\ SUPPLY_MISMATCH \in schema.genesis.errors
    /\ Cardinality(DOMAIN schema.errors) = Cardinality(UNION SchemaErrorSets)

\* C4: every global the genesis or a transition names is a key of global_state;
\* every input, assignment and default assignment it names is a key of assignments.
C4_FieldClosure ==
    /\ DOMAIN schema.genesis.globals \subseteq DOMAIN schema.global_state
    /\ DOMAIN schema.genesis.assignments \subseteq DOMAIN schema.assignments
    /\ \A t \in DOMAIN schema.transitions :
        LET T == schema.transitions[t]
        IN  /\ DOMAIN T.globals \subseteq DOMAIN schema.global_state
            /\ DOMAIN T.inputs \subseteq DOMAIN schema.assignments
            /\ DOMAIN T.assignments \subseteq DOMAIN schema.assignments
            /\ \A i \in DOMAIN T.default_assignment :
                T.default_assignment[i] \in DOMAIN schema.assignments

C4_Witness ==
    /\ "burnRight" \in DOMAIN schema.transitions["burn"].inputs
    /\ "burnedSupply" \in DOMAIN schema.transitions["burn"].globals
    /\ schema.transitions["transfer"].default_assignment = <<"assetOwner">>
    /\ "terms" \in DOMAIN schema.genesis.globals

\* the amounts of vals[1..n] added up, last first
RECURSIVE SumTo(_, _)
SumTo(vals, n) == IF n = 0 THEN 0 ELSE vals[n].num + SumTo(vals, n - 1)

\* C5: total_burned_supply() returns the sum of the amounts bound to
\* `burnedSupply`, and zero, without failing, when the list is empty and when the
\* state reports no such field; occurrences 3 and 5 give 8.
C5_BurnedSupplySum ==
    ret.op = "total_burned_supply" =>
        LET b == wrapper[1].global.burnedSupply
        IN  /\ ret.outcome = "ok"
            /\ ~b.ok => ret.val = <<0>>
            /\ b.ok => ret.val = <<SumTo(b.vals, Len(b.vals))>>
            /\ (b.ok /\ b.vals = <<StrictNum(3), StrictNum(5)>>) => ret.val = <<8>>

C5_Witness ==
    /\ ret = Returned("total_burned_supply", 8)
    /\ wrapper[1].global.burnedSupply = Ok(<<StrictNum(3), StrictNum(5)>>)

\* C6: on every state conformant to the schema, one where the state has no entry
\* for the optional `details` included, details() returns: None when no value is
\* bound, the decoded value when one is.
C6_DetailsNeverFails ==
    (ret.op = "details" /\ Conformant(wrapper[1])) =>
        LET b == wrapper[1].global.details
        IN  /\ ret.outcome = "ok"
            /\ ret.val = << IF ~b.ok \/ b.vals = <<>> THEN None ELSE Some(b.vals[1].str) >>

\* C7: on a conformant state name(), precision() and total_issued_supply() return
\* the one value bound to their global; name() and precision() panic when the
\* value list is empty or missing.
C7_RequiredSingletons ==
    /\ ret.op = "name" =>
        LET b == wrapper[1].global.name
        IN  /\ Conformant(wrapper[1]) => ret = Returned("name", b.vals[1].str)
            /\ (~b.ok \/ b.vals = <<>>) => ret = Panicked("name")
    /\ ret.op = "precision" =>
        LET b == wrapper[1].global.precision
        IN  /\ Conformant(wrapper[1]) => ret = Returned("precision", b.vals[1].num)
            /\ (~b.ok \/ b.vals = <<>>) => ret = Panicked("precision")
    /\ ret.op = "total_issued_supply" =>
        LET b == wrapper[1].global.issuedSupply
        IN  Conformant(wrapper[1]) => ret = Returned("total_issued_supply", b.vals[1].num)

C7_Witness ==
    /\ ret = Returned("name", "Asset B")
    /\ Conformant(wrapper[1])

\* C9: the global contract_data() reads is a key of global_state, and on a
\* conformant state contract_data() returns the AssetTerms bound to the required
\* `terms` global.
C9_ContractDataReadsDeclaredGlobal ==
    (ret.op = "contract_data" /\ Conformant(wrapper[1])) =>
        /\ \A op \in DOMAIN AccessorGlobal : AccessorGlobal[op] \in DOMAIN rgb25.global_state
        /\ ret = Returned("contract_data", wrapper[1].global.terms.vals[1].str)

\* no state the declared operations reach holds a `burnRight` for burn to consume
BurnNeverEnabled == ~InputsAvailable("burn")

\* C10: every declared transition gets to run: transfer finds its inputs, burn
\* finds a `burnRight` to consume, and a `burnedSupply` value gets bound.
C10_TransitionsExecutable ==
    /\ <>InputsAvailable("transfer")
    /\ <>InputsAvailable("burn")
    /\ <>(contract.global.burnedSupply # <<>>)

====
